---- MODULE Spec2Model ----
\* A model of inventory_system.py: the process-wide dict stock_data, the JSON
\* file it is loaded from and saved to, and the operations add_item,
\* remove_item, get_qty, load_data, save_data, print_data, check_low_items.
EXTENDS Integers, Sequences, FiniteSets, TLC

VARIABLES stock_data, file, saved, last

vars == <<stock_data, file, saved, last>>

\* ---------------------------------------------------------------------------
\* Bounds
\* ---------------------------------------------------------------------------

\* Largest total an add_item call may bring an entry to.
MaxQty == 2

\* ---------------------------------------------------------------------------
\* Python values.  Every value is a record of one shape:
\*   kind  : "int" "float" "bool" "str" "none" "list" "dict" "entry"
\*   n     : the integer (int), 0/1 (bool), twice the value (float)
\*   s     : the text (str)
\*   items : the elements (list), the entries (dict), <<key, value>> (entry)
\* ---------------------------------------------------------------------------

PyVal(kind, n, s, items) == [kind |-> kind, n |-> n, s |-> s, items |-> items]

PyInt(n) == PyVal("int", n, "", <<>>)

\* A float, given as twice its value (PyFloat2(5) is 2.5).
PyFloat2(h) == PyVal("float", h, "", <<>>)

PyBool(b) == PyVal("bool", IF b THEN 1 ELSE 0, "", <<>>)

PyStr(s) == PyVal("str", 0, s, <<>>)

PyNone == PyVal("none", 0, "", <<>>)

PyList(items) == PyVal("list", 0, "", items)

PyEntry(k, v) == PyVal("entry", 0, "", <<k, v>>)

PyDict(entries) == PyVal("dict", 0, "", entries)

\* isinstance(v, str)
IsStr(v) == v.kind = "str"

\* isinstance(v, int): bool is a subclass of int.
IsInt(v) == v.kind \in {"int", "bool"}

IsNumber(v) == v.kind \in {"int", "bool", "float"}

\* Twice the numeric value of a number (0 for anything else).
Num2(v) ==
    IF v.kind \in {"int", "bool"} THEN 2 * v.n
    ELSE IF v.kind = "float" THEN v.n
    ELSE 0

\* A number from twice its value; float when an operand was a float.
MkNum(isFloat, twice) == IF isFloat THEN PyFloat2(twice) ELSE PyInt(twice \div 2)

\* a == b on values used as dict keys: numbers compare by value, text by
\* content, None with None.
PyEq(a, b) ==
    \/ IsNumber(a) /\ IsNumber(b) /\ Num2(a) = Num2(b)
    \/ IsStr(a) /\ IsStr(b) /\ a.s = b.s
    \/ a.kind = "none" /\ b.kind = "none"

\* v <= q for an int q.
PyLe(v, q) ==
    [raised |-> IF IsNumber(v) THEN "none" ELSE "TypeError",
     val |-> IsNumber(v) /\ Num2(v) <= Num2(q)]

\* v + q for an int q.
PyAdd(v, q) ==
    [raised |-> IF IsNumber(v) THEN "none" ELSE "TypeError",
     val |-> MkNum(v.kind = "float", Num2(v) + Num2(q))]

\* v - q for an int q.
PySub(v, q) ==
    [raised |-> IF IsNumber(v) THEN "none" ELSE "TypeError",
     val |-> MkNum(v.kind = "float", Num2(v) - Num2(q))]

\* ---------------------------------------------------------------------------
\* dict: a sequence of [k, v] in insertion order, keys pairwise unequal.
\* ---------------------------------------------------------------------------

\* Position of key k in d, 0 when absent.
DictIdx(d, k) ==
    IF \E i \in 1..Len(d) : PyEq(d[i].k, k)
    THEN CHOOSE i \in 1..Len(d) : PyEq(d[i].k, k)
    ELSE 0

DictHas(d, k) == DictIdx(d, k) # 0

\* d.get(k, default)
DictGet(d, k, default) == IF DictHas(d, k) THEN d[DictIdx(d, k)].v ELSE default

\* d[k] = v: an existing key keeps its position and its key object.
DictSet(d, k, v) ==
    IF DictHas(d, k)
    THEN [d EXCEPT ![DictIdx(d, k)].v = v]
    ELSE Append(d, [k |-> k, v |-> v])

\* A deletion that also drops every entry after the deleted one.
DictDelTail(d, k) == SubSeq(d, 1, DictIdx(d, k) - 1)

\* del d[k] for a present key.
DictDel(d, k) ==
    LET i == DictIdx(d, k)
    IN SubSeq(d, 1, i - 1) \o SubSeq(d, i + 1, Len(d))

\* The keys of d in iteration order.
DictKeys(d) == [i \in 1..Len(d) |-> d[i].k]

\* d as a Python value, and back.
AsPyDict(d) == PyDict([i \in 1..Len(d) |-> PyEntry(d[i].k, d[i].v)])

FromPyDict(v) == [i \in 1..Len(v.items) |-> [k |-> v.items[i].items[1], v |-> v.items[i].items[2]]]

\* ---------------------------------------------------------------------------
\* JSON text, as the sequence of its tokens (white space, and so the indent
\* of json.dump, carries no token).
\* ---------------------------------------------------------------------------

Tok(t, n, s) == [t |-> t, n |-> n, s |-> s]

P(t) == Tok(t, 0, "")

TStr(s) == Tok("str", 0, s)

TInt(n) == Tok("int", n, "")

TFloat2(h) == Tok("float", h, "")

\* float.__repr__ of a float given as twice its value: "2.5", "1.0", "-0.5".
FloatRepr(h) ==
    LET a == IF h < 0 THEN 0 - h ELSE h
    IN (IF h < 0 THEN "-" ELSE "") \o ToString(a \div 2) \o "."
       \o (IF a % 2 = 0 THEN "0" ELSE "5")

\* The text json.dump writes for a dict key: a str key as it is, the other
\* key types coerced to text.
KeyToStr(k) ==
    CASE k.kind = "str" -> k.s
      [] k.kind = "int" -> ToString(k.n)
      [] k.kind = "float" -> FloatRepr(k.n)
      [] k.kind = "bool" -> (IF k.n = 1 THEN "true" ELSE "false")
      [] OTHER -> "null"

RECURSIVE Dumps(_), DumpElems(_, _), DumpMembers(_, _)

\* json.dumps(v)
Dumps(v) ==
    CASE v.kind = "int" -> <<TInt(v.n)>>
      [] v.kind = "float" -> <<TFloat2(v.n)>>
      [] v.kind = "bool" -> <<P(IF v.n = 1 THEN "true" ELSE "false")>>
      [] v.kind = "str" -> <<TStr(v.s)>>
      [] v.kind = "none" -> <<P("null")>>
      [] v.kind = "list" -> <<P("[")>> \o DumpElems(v.items, 1) \o <<P("]")>>
      [] OTHER -> <<P("{")>> \o DumpMembers(v.items, 1) \o <<P("}")>>

DumpElems(items, i) ==
    IF i > Len(items) THEN <<>>
    ELSE Dumps(items[i])
         \o (IF i < Len(items) THEN <<P(",")>> ELSE <<>>)
         \o DumpElems(items, i + 1)

DumpMembers(entries, i) ==
    IF i > Len(entries) THEN <<>>
    ELSE <<TStr(KeyToStr(entries[i].items[1])), P(":")>>
         \o Dumps(entries[i].items[2])
         \o (IF i < Len(entries) THEN <<P(",")>> ELSE <<>>)
         \o DumpMembers(entries, i + 1)

\* A parse result: ok, the value, and the position after it.
ParseOk(v, i) == [ok |-> TRUE, v |-> v, i |-> i]

ParseFail == [ok |-> FALSE, v |-> PyNone, i |-> 0]

TokAt(toks, i) == IF i >= 1 /\ i <= Len(toks) THEN toks[i].t ELSE "eof"

RECURSIVE ParseValue(_, _), ParseElems(_, _, _), ParseMembers(_, _, _)

\* The JSON value that starts at token i.
ParseValue(toks, i) ==
    LET t == TokAt(toks, i)
    IN CASE t = "int" -> ParseOk(PyInt(toks[i].n), i + 1)
         [] t = "float" -> ParseOk(PyFloat2(toks[i].n), i + 1)
         [] t = "str" -> ParseOk(PyStr(toks[i].s), i + 1)
         [] t = "true" -> ParseOk(PyBool(TRUE), i + 1)
         [] t = "false" -> ParseOk(PyBool(FALSE), i + 1)
         [] t = "null" -> ParseOk(PyNone, i + 1)
         [] t = "[" -> (IF TokAt(toks, i + 1) = "]"
                        THEN ParseOk(PyList(<<>>), i + 2)
                        ELSE ParseElems(toks, i + 1, <<>>))
         [] t = "{" -> (IF TokAt(toks, i + 1) = "}"
                        THEN ParseOk(PyDict(<<>>), i + 2)
                        ELSE ParseMembers(toks, i + 1, <<>>))
         [] OTHER -> ParseFail

\* The elements of an array from token i on, acc being those already read.
ParseElems(toks, i, acc) ==
    LET r == ParseValue(toks, i)
    IN IF ~r.ok THEN ParseFail
       ELSE IF TokAt(toks, r.i) = "," THEN ParseElems(toks, r.i + 1, Append(acc, r.v))
       ELSE IF TokAt(toks, r.i) = "]" THEN ParseOk(PyList(Append(acc, r.v)), r.i + 1)
       ELSE ParseFail

\* The members of an object from token i on, acc being the dict built so
\* far: a repeated key keeps its first position and takes the last value.
ParseMembers(toks, i, acc) ==
    IF TokAt(toks, i) # "str" \/ TokAt(toks, i + 1) # ":" THEN ParseFail
    ELSE LET r == ParseValue(toks, i + 2)
         IN IF ~r.ok THEN ParseFail
            ELSE LET d == DictSet(acc, PyStr(toks[i].s), r.v)
                 IN IF TokAt(toks, r.i) = "," THEN ParseMembers(toks, r.i + 1, d)
                    ELSE IF TokAt(toks, r.i) = "}" THEN ParseOk(AsPyDict(d), r.i + 1)
                    ELSE ParseFail

\* json.loads(text): one value and nothing after it, else JSONDecodeError.
Loads(toks) ==
    LET r == ParseValue(toks, 1)
    IN IF r.ok /\ r.i = Len(toks) + 1 THEN r ELSE ParseFail

\* ---------------------------------------------------------------------------
\* dict.update(data)
\* ---------------------------------------------------------------------------

\* What iterating v yields; Iterable(v) says whether v can be iterated.
Iterable(v) == v.kind \in {"list", "str", "dict"}

Iter(v) ==
    CASE v.kind = "list" -> v.items
      [] v.kind = "str" -> [i \in 1..Len(v.s) |-> PyStr(SubSeq(v.s, i, i))]
      [] v.kind = "dict" -> [i \in 1..Len(v.items) |-> v.items[i].items[1]]
      [] OTHER -> <<>>

Hashable(v) == v.kind \notin {"list", "dict"}

RECURSIVE UpdateFromSeq(_, _, _)

\* d.update(elems) for a sequence of key/value pairs, from element i on:
\* the pairs before the first bad element stay inserted.
UpdateFromSeq(d, elems, i) ==
    IF i > Len(elems) THEN [sd |-> d, raised |-> "none"]
    ELSE LET e == elems[i]
         IN IF ~Iterable(e) THEN [sd |-> d, raised |-> "TypeError"]
            ELSE IF Len(Iter(e)) # 2 THEN [sd |-> d, raised |-> "ValueError"]
            ELSE IF ~Hashable(Iter(e)[1]) THEN [sd |-> d, raised |-> "TypeError"]
            ELSE UpdateFromSeq(DictSet(d, Iter(e)[1], Iter(e)[2]), elems, i + 1)

RECURSIVE UpdateFromDict(_, _, _)

UpdateFromDict(d, entries, i) ==
    IF i > Len(entries) THEN d
    ELSE UpdateFromDict(DictSet(d, entries[i].k, entries[i].v), entries, i + 1)

\* d.update(data) for any decoded JSON value.
DictUpdate(d, data) ==
    IF data.kind = "dict"
    THEN [sd |-> UpdateFromDict(d, FromPyDict(data), 1), raised |-> "none"]
    ELSE IF Iterable(data) THEN UpdateFromSeq(d, Iter(data), 1)
    ELSE [sd |-> d, raised |-> "TypeError"]

\* ---------------------------------------------------------------------------
\* The operations.  Each yields the mapping and the file after the call, the
\* exception that reached the caller ("none" when the call returned), the
\* returned value, and the level of the diagnostic it logged.
\* ---------------------------------------------------------------------------

Result(sd, f, raised, ret, log) ==
    [sd |-> sd, file |-> f, raised |-> raised, ret |-> ret, log |-> log]

\* add_item without the check of the sign of qty.
add_item_no_sign_check(sd, f, item, qty) ==
    IF ~IsStr(item) \/ item.s = "" THEN Result(sd, f, "none", PyNone, "ERROR")
    ELSE IF ~IsInt(qty) THEN Result(sd, f, "none", PyNone, "ERROR")
    ELSE LET r == PyAdd(DictGet(sd, item, PyInt(0)), qty)
         IN IF r.raised # "none" THEN Result(sd, f, r.raised, PyNone, "NONE")
            ELSE Result(DictSet(sd, item, r.val), f, "none", PyNone, "INFO")

add_item(sd, f, item, qty) ==
    IF ~IsStr(item) \/ item.s = "" THEN Result(sd, f, "none", PyNone, "ERROR")
    ELSE IF ~IsInt(qty) THEN Result(sd, f, "none", PyNone, "ERROR")
    ELSE IF qty.n <= 0 THEN Result(sd, f, "none", PyNone, "WARNING")
    ELSE LET r == PyAdd(DictGet(sd, item, PyInt(0)), qty)
         IN IF r.raised # "none" THEN Result(sd, f, r.raised, PyNone, "NONE")
            ELSE Result(DictSet(sd, item, r.val), f, "none", PyNone, "INFO")

\* remove_item that deletes only when the stored quantity is below qty, so
\* that a tie leaves an entry of quantity 0.
remove_item_strict(sd, f, item, qty) ==
    IF ~IsStr(item) \/ item.s = "" THEN Result(sd, f, "none", PyNone, "ERROR")
    ELSE IF ~IsInt(qty) \/ qty.n <= 0 THEN Result(sd, f, "none", PyNone, "ERROR")
    ELSE IF ~DictHas(sd, item) THEN Result(sd, f, "none", PyNone, "WARNING")
    ELSE LET cur == DictGet(sd, item, PyNone)
         IN IF PyLe(cur, qty).raised # "none" THEN Result(sd, f, "none", PyNone, "ERROR")
            ELSE IF PyLe(cur, qty).val /\ Num2(cur) # Num2(qty)
            THEN Result(DictDel(sd, item), f, "none", PyNone, "INFO")
            ELSE Result(DictSet(sd, item, PySub(cur, qty).val), f, "none", PyNone, "INFO")

remove_item(sd, f, item, qty) ==
    IF ~IsStr(item) \/ item.s = "" THEN Result(sd, f, "none", PyNone, "ERROR")
    ELSE IF ~IsInt(qty) \/ qty.n <= 0 THEN Result(sd, f, "none", PyNone, "ERROR")
    ELSE IF ~DictHas(sd, item) THEN Result(sd, f, "none", PyNone, "WARNING")
    ELSE LET cur == DictGet(sd, item, PyNone)
         IN IF PyLe(cur, qty).raised # "none" THEN Result(sd, f, "none", PyNone, "ERROR")
            ELSE IF PyLe(cur, qty).val
            THEN Result(DictDel(sd, item), f, "none", PyNone, "INFO")
            ELSE Result(DictSet(sd, item, PySub(cur, qty).val), f, "none", PyNone, "INFO")

get_qty(sd, f, item) ==
    IF ~IsStr(item) THEN Result(sd, f, "none", PyInt(0), "ERROR")
    ELSE Result(sd, f, "none", DictGet(sd, item, PyInt(0)), "NONE")

\* io is what opening the file for reading does: "ok", or "denied" for an
\* OSError other than FileNotFoundError.
load_data(sd, f, io) ==
    IF ~f.exists THEN Result(sd, f, "none", PyNone, "WARNING")
    ELSE IF io = "denied" THEN Result(sd, f, "PermissionError", PyNone, "NONE")
    ELSE LET data == Loads(f.text)
         IN IF ~data.ok THEN Result(sd, f, "none", PyNone, "ERROR")
            ELSE LET u == DictUpdate(<<>>, data.v)
                 IN IF u.raised # "none" THEN Result(u.sd, f, u.raised, PyNone, "NONE")
                    ELSE Result(u.sd, f, "none", PyNone, "INFO")

\* io is what the file system does: "ok", "open_fails" (the file is left as
\* it was), or "write_fails" (open truncated the file and the buffered text
\* never reached it).
save_data(sd, f, io) ==
    LET text == Dumps(AsPyDict(sd))
    IN IF io = "open_fails" THEN Result(sd, f, "none", PyNone, "ERROR")
       ELSE IF io = "write_fails"
       THEN Result(sd, [exists |-> TRUE, text |-> <<>>], "none", PyNone, "ERROR")
       ELSE Result(sd, [exists |-> TRUE, text |-> text], "none", PyNone, "INFO")

\* The returned list stands for the printed lines: the header, the
\* placeholder when the mapping is empty, one entry per item, the footer.
print_data(sd, f) ==
    Result(sd, f, "none",
           PyList(<<PyStr("--- Items Report ---")>>
                  \o (IF sd = <<>> THEN <<PyStr("  Inventory is empty.")>> ELSE <<>>)
                  \o AsPyDict(sd).items
                  \o <<PyStr("----------------------")>>),
           "NONE")

check_low_items(sd, f, threshold) ==
    IF \E i \in 1..Len(sd) : PyLe(sd[i].v, threshold).raised # "none"
    THEN Result(sd, f, "TypeError", PyNone, "NONE")
    ELSE Result(sd, f, "none",
                PyList(DictKeys(SelectSeq(sd, LAMBDA e : PyLe(e.v, threshold).val))),
                "NONE")

\* ---------------------------------------------------------------------------
\* The inputs
\* ---------------------------------------------------------------------------

ItemArgs == {PyStr("apple"), PyStr("banana"), PyStr(""), PyInt(1)}

QtyArgs == {PyInt(-2), PyInt(1), PyInt(2), PyBool(TRUE), PyStr("ten")}

Thresholds == {PyInt(1), PyInt(5)}

\* The token text of an object with the given members <<key, value tokens>>.
RECURSIVE ObjMembers(_, _)

ObjMembers(ms, i) ==
    IF i > Len(ms) THEN <<>>
    ELSE <<TStr(ms[i][1]), P(":")>> \o ms[i][2]
         \o (IF i < Len(ms) THEN <<P(",")>> ELSE <<>>)
         \o ObjMembers(ms, i + 1)

Obj(ms) == <<P("{")>> \o ObjMembers(ms, 1) \o <<P("}")>>

RECURSIVE ArrElems(_, _)

ArrElems(es, i) ==
    IF i > Len(es) THEN <<>>
    ELSE es[i] \o (IF i < Len(es) THEN <<P(",")>> ELSE <<>>) \o ArrElems(es, i + 1)

Arr(es) == <<P("[")>> \o ArrElems(es, 1) \o <<P("]")>>

\* The texts the file may hold when the process starts.
InitialTexts ==
    { <<P("{"), TStr("apple"), P(":")>>,
      Obj(<< <<"apple", <<TInt(0)>> >>, <<"banana", <<TInt(2)>> >> >>),
      Obj(<< <<"apple", <<TStr("x")>> >>, <<"banana", <<TFloat2(5)>> >> >>),
      Obj(<< <<"apple", <<P("null")>> >>,
             <<"banana", Arr(<< <<P("true")>>, Obj(<< <<"b", <<TInt(1)>> >> >>) >>) >> >>),
      Obj(<< <<"", <<TInt(2)>> >>, <<"apple", <<TInt(1)>> >>, <<"apple", <<TInt(2)>> >> >>),
      Arr(<< <<TInt(1)>>, <<TInt(2)>> >>),
      Arr(<< Arr(<< <<TStr("apple")>>, <<TInt(1)>> >>), Arr(<< <<TInt(1)>> >>) >>),
      Arr(<< Arr(<< <<TInt(1)>>, <<TInt(2)>> >>), Arr(<< <<P("true")>>, <<TInt(3)>> >>),
             <<TStr("cd")>>, Obj(<< <<"apple", <<TInt(1)>> >>, <<"b", <<TInt(2)>> >> >>) >>),
      Arr(<< Arr(<< Arr(<<>>), <<TInt(2)>> >>) >>),
      <<TInt(5)>>,
      <<TStr("ab")>> }

InitialFiles ==
    {[exists |-> FALSE, text |-> <<>>]} \cup {[exists |-> TRUE, text |-> t] : t \in InitialTexts}

\* ---------------------------------------------------------------------------
\* The state machine
\* ---------------------------------------------------------------------------

\* last records the most recent call: its name, its arguments, the mapping
\* before it, and its outcome.  saved records the mapping written by the
\* most recent save_data that succeeded, while the file still holds it.
Call(op, item, qty, pre, r) ==
    [op |-> op, item |-> item, qty |-> qty, pre |-> pre,
     raised |-> r.raised, ret |-> r.ret, log |-> r.log]

Init ==
    /\ stock_data = <<>>
    /\ file \in InitialFiles
    /\ saved = [valid |-> FALSE, m |-> <<>>]
    /\ last = Call("init", PyNone, PyNone, <<>>, Result(<<>>, file, "none", PyNone, "NONE"))

AddItem ==
    \E item \in ItemArgs, qty \in QtyArgs :
        LET r == add_item(stock_data, file, item, qty)
        IN /\ r.sd = stock_data \/ Num2(DictGet(r.sd, item, PyInt(0))) <= 2 * MaxQty
           /\ stock_data' = r.sd
           /\ last' = Call("add_item", item, qty, stock_data, r)
           /\ UNCHANGED <<file, saved>>

RemoveItem ==
    \E item \in ItemArgs, qty \in QtyArgs :
        LET r == remove_item(stock_data, file, item, qty)
        IN /\ stock_data' = r.sd
           /\ last' = Call("remove_item", item, qty, stock_data, r)
           /\ UNCHANGED <<file, saved>>

GetQty ==
    \E item \in ItemArgs :
        LET r == get_qty(stock_data, file, item)
        IN /\ last' = Call("get_qty", item, PyNone, stock_data, r)
           /\ UNCHANGED <<stock_data, file, saved>>

LoadData ==
    \E io \in {"ok", "denied"} :
        LET r == load_data(stock_data, file, io)
        IN /\ stock_data' = r.sd
           /\ last' = Call("load_data", PyStr(io), PyNone, stock_data, r)
           /\ UNCHANGED <<file, saved>>

SaveData ==
    \E io \in {"ok", "open_fails", "write_fails"} :
        LET r == save_data(stock_data, file, io)
        IN /\ stock_data' = r.sd
           /\ file' = r.file
           /\ saved' = IF io = "ok" THEN [valid |-> TRUE, m |-> stock_data]
                       ELSE IF io = "write_fails" THEN [valid |-> FALSE, m |-> <<>>]
                       ELSE saved
           /\ last' = Call("save_data", PyStr(io), PyNone, stock_data, r)

PrintData ==
    LET r == print_data(stock_data, file)
    IN /\ last' = Call("print_data", PyNone, PyNone, stock_data, r)
       /\ UNCHANGED <<stock_data, file, saved>>

CheckLowItems ==
    \E threshold \in Thresholds :
        LET r == check_low_items(stock_data, file, threshold)
        IN /\ last' = Call("check_low_items", PyNone, threshold, stock_data, r)
           /\ UNCHANGED <<stock_data, file, saved>>

Next ==
    \/ AddItem
    \/ RemoveItem
    \/ GetQty
    \/ LoadData
    \/ SaveData
    \/ PrintData
    \/ CheckLowItems

Spec == Init /\ [][Next]_vars

\* ---------------------------------------------------------------------------
\* Properties
\* ---------------------------------------------------------------------------

\* The arguments of the last call were valid ones for add_item / remove_item.
ValidItem(item) == IsStr(item) /\ item.s # ""

PositiveInt(qty) == IsInt(qty) /\ qty.n > 0

\* The entries of d under keys other than k, in order.
Others(d, k) == SelectSeq(d, LAMBDA e : ~PyEq(e.k, k))

\* Same keys with the same values, whatever the order.
SameMapping(a, b) == {a[i] : i \in 1..Len(a)} = {b[i] : i \in 1..Len(b)}

\* The value get_qty returns for item on mapping d.
QtyOf(d, item) == get_qty(d, file, item).ret

\* C1: every key present in stock_data has a value strictly greater than 0.
C1_AllValuesPositive ==
    \A i \in 1..Len(stock_data) :
        IsNumber(stock_data[i].v) /\ Num2(stock_data[i].v) > 0

\* C2: load_data never raises, and when it returns the mapping is either the
\* mapping before the call or exactly the decoded contents of the file.
C2_LoadAtomicNeverRaises ==
    (last.op = "load_data" /\ last.item = PyStr("ok")) =>
        /\ last.raised = "none"
        /\ \/ stock_data = last.pre
           \/ /\ file.exists
              /\ Loads(file.text).ok
              /\ AsPyDict(stock_data) = Loads(file.text).v

\* C3: add_item and remove_item never raise, and a call that fails leaves
\* the mapping unchanged.
C3_AddRemoveNeverRaise ==
    last.op \in {"add_item", "remove_item"} =>
        /\ last.raised = "none"
        /\ last.log # "INFO" => stock_data = last.pre

\* C4: after add_item(item, qty) with a non-empty text item and an integer
\* qty > 0, get_qty(item) is its value before the call plus qty.
C4_AddIncrements ==
    (last.op = "add_item" /\ ValidItem(last.item) /\ PositiveInt(last.qty)) =>
        /\ IsNumber(QtyOf(last.pre, last.item))
        /\ IsNumber(QtyOf(stock_data, last.item))
        /\ Num2(QtyOf(stock_data, last.item))
               = Num2(QtyOf(last.pre, last.item)) + Num2(last.qty)

\* What C5 says of a remove_item(item, qty) call that found item present
\* with quantity c: the key is deleted when qty >= c (get_qty is then 0 and
\* the item is in no low-items list and not in the report), and otherwise
\* stays with quantity c - qty.
RemoveOutcome ==
    LET c == DictGet(last.pre, last.item, PyNone)
    IN IF Num2(last.qty) >= Num2(c)
       THEN /\ ~DictHas(stock_data, last.item)
            /\ QtyOf(stock_data, last.item) = PyInt(0)
            /\ \A th \in Thresholds :
                   \A j \in 1..Len(check_low_items(stock_data, file, th).ret.items) :
                       ~PyEq(check_low_items(stock_data, file, th).ret.items[j], last.item)
            /\ \A j \in 1..Len(print_data(stock_data, file).ret.items) :
                   print_data(stock_data, file).ret.items[j].kind = "entry"
                       => ~PyEq(print_data(stock_data, file).ret.items[j].items[1], last.item)
       ELSE /\ DictHas(stock_data, last.item)
            /\ IsNumber(QtyOf(stock_data, last.item))
            /\ Num2(QtyOf(stock_data, last.item)) = Num2(c) - Num2(last.qty)

\* The last call was a remove_item with an integer qty > 0 of an item that
\* was present with a quantity c > 0.
RemoveOfPresent ==
    /\ last.op = "remove_item"
    /\ DictHas(last.pre, last.item)
    /\ IsNumber(DictGet(last.pre, last.item, PyNone))
    /\ Num2(DictGet(last.pre, last.item, PyNone)) > 0
    /\ PositiveInt(last.qty)

\* C5 as stated: for any item present with quantity c > 0 and any integer
\* qty > 0, remove_item deletes the key when qty >= c and otherwise leaves it
\* with c - qty.
C5_RemoveAnyPresentItem == RemoveOfPresent => RemoveOutcome

\* C5, amended: the same for an item that is a non-empty text.
C5_RemoveDeletesOrDecrements ==
    (RemoveOfPresent /\ ValidItem(last.item)) => RemoveOutcome

\* A remove_item of exactly the stored quantity of a valid item: the tie.
C5_Witness ==
    /\ RemoveOfPresent
    /\ ValidItem(last.item)
    /\ Num2(last.qty) = Num2(DictGet(last.pre, last.item, PyNone))
    /\ ~DictHas(stock_data, last.item)

\* C6: a rejected add_item or remove_item call (a non-text or empty item, a
\* non-integer or non-positive qty, or for remove_item an absent item) leaves
\* the whole mapping unchanged.
C6_RejectedCallUnchanged ==
    (\/ /\ last.op = "add_item"
        /\ ~ValidItem(last.item) \/ ~PositiveInt(last.qty)
     \/ /\ last.op = "remove_item"
        /\ ~ValidItem(last.item) \/ ~PositiveInt(last.qty) \/ ~DictHas(last.pre, last.item)) =>
        stock_data = last.pre

\* A remove_item of a valid but absent item, with a valid quantity, on a
\* mapping that holds other items.
C6_Witness ==
    /\ last.op = "remove_item"
    /\ ValidItem(last.item)
    /\ PositiveInt(last.qty)
    /\ last.pre # <<>>
    /\ ~DictHas(last.pre, last.item)
    /\ last.log = "WARNING"

\* C7: save_data does not change the mapping, and a load_data of the file a
\* successful save_data wrote leaves the mapping with exactly the keys and
\* values it had at the save.
C7_RoundTrip ==
    /\ last.op = "save_data" => stock_data = last.pre
    /\ (last.op = "load_data" /\ last.item = PyStr("ok") /\ saved.valid) =>
           SameMapping(stock_data, saved.m)

\* C8: get_qty returns an integer, the stored quantity of a present text
\* item and 0 otherwise, and never changes the mapping.
C8_GetQtyInteger ==
    last.op = "get_qty" =>
        /\ IsInt(last.ret)
        /\ stock_data = last.pre
        /\ last.ret = (IF IsStr(last.item) /\ DictHas(last.pre, last.item)
                       THEN DictGet(last.pre, last.item, PyNone)
                       ELSE PyInt(0))

\* The keys of d from position i on whose quantity is a number <= th.
RECURSIVE LowKeys(_, _, _)

LowKeys(d, th, i) ==
    IF i > Len(d) THEN <<>>
    ELSE (IF IsNumber(d[i].v) /\ Num2(d[i].v) <= Num2(th) THEN <<d[i].k>> ELSE <<>>)
         \o LowKeys(d, th, i + 1)

\* C9: check_low_items(threshold) returns exactly the items whose quantity
\* is <= threshold, once each and in insertion order, and leaves the mapping
\* unchanged.
C9_CheckLowItems ==
    last.op = "check_low_items" =>
        /\ last.raised = "none"
        /\ last.ret = PyList(LowKeys(last.pre, last.qty, 1))
        /\ stock_data = last.pre

\* C10: a successful add_item or remove_item changes only the entry of its
\* item: every other key keeps its presence, its quantity and its position
\* relative to the other keys.
C10_OtherEntriesUntouched ==
    (last.op \in {"add_item", "remove_item"} /\ last.raised = "none" /\ last.log = "INFO") =>
        Others(stock_data, last.item) = Others(last.pre, last.item)

\* A successful remove_item that deleted the first of several keys.
C10_Witness ==
    /\ last.op = "remove_item"
    /\ last.log = "INFO"
    /\ Len(last.pre) >= 2
    /\ DictIdx(last.pre, last.item) = 1
    /\ ~DictHas(stock_data, last.item)
    /\ Len(stock_data) = Len(last.pre) - 1

====
